---------------------------- MODULE Spec2Model ----------------------------
(***************************************************************************)
(* Model of the GitHub-sync plugin: src/src/main.ts (MyPlugin: triggers,   *)
(* initializeGit, performSync) and src/src/gitManager.ts (GitManager:      *)
(* initialize, setupAuthentication, pull, commitAndPush, fullSync,         *)
(* resolveConflicts, abortMerge).                                          *)
(*                                                                         *)
(* Execution model.  The plugin runs on a single-threaded event loop.  An  *)
(* async function runs synchronously up to the adapter call (simple-git)   *)
(* it awaits; other handlers run only while it is suspended there.  A      *)
(* process of the model is one running handler; its pc names the adapter   *)
(* call it is suspended on.  One step of a process is: that adapter call   *)
(* completes (returns or throws, with its effect on the repository), and   *)
(* the code runs on to the next adapter call or to the handler's end.      *)
(***************************************************************************)
EXTENDS Integers, Sequences, FiniteSets, TLC

\* ------------------------------------------------------------------ bounds
MaxFaults == 1          \* adapter calls that fail for an outside reason
MaxEdits == 1           \* changes of the remote URL in the settings tab
MaxRemote == 1          \* commits that other clones push to the remote
MaxTime == 62000        \* the clock stops advancing beyond this (ms after load)
MaxAhead == 2           \* cap of the count of unpushed local commits
MaxFiles == 12          \* the longest changed-file list a message is built for

\* -------------------------------------------------------- program constants
DebounceMs == 2000      \* main.ts:211
TickMs == 60000         \* main.ts:229  (60 * 1000)
MsPerMinute == 60000    \* main.ts:222  (60 * 1000)

Procs == {1, 2}
Paths == {"a.md", "b.md"}
TimeSteps == {1000, 58000}
Intervals == {0, 1}

\* --------------------------------------------------------------- strings
\* A string is a sequence of tokens; no token contains "/", " " or ".git"
\* unless it is that token, so the JS string tests below are exact.
UrlEmpty == <<>>
UrlHttps == <<"https:", "/", "/", "github.com", "/", "u", "/", "r", ".git">>
UrlSlash == <<"https:", "/", "/", "github.com", "/", "u", "/">>
UrlSlashSp == <<"https:", "/", "/", "github.com", "/", "u", "/", " ">>
Urls == {UrlEmpty, UrlHttps, UrlSlash, UrlSlashSp}
UrlOther == <<"https:", "/", "/", "github.com", "/", "u", "/", "r2", ".git">>
\* The same repository by its SSH address, and a repository on another host.
UrlSsh == <<"git@", "github.com", ":", "u", "/", "r", ".git">>
UrlGitlab == <<"https:", "/", "/", "gitlab.com", "/", "u", "/", "r", ".git">>

\* String.prototype.trim removes white space: blanks and line breaks.
RECURSIVE trimEnd(_)
trimEnd(s) ==
    IF s # <<>> /\ s[Len(s)] \in {" ", "\n"} THEN trimEnd(SubSeq(s, 1, Len(s) - 1)) ELSE s

RECURSIVE trimStart(_)
trimStart(s) ==
    IF s # <<>> /\ s[1] \in {" ", "\n"} THEN trimStart(Tail(s)) ELSE s

trim(s) == trimStart(trimEnd(s))

endsWith(s, t) == s # <<>> /\ s[Len(s)] = t

includes(s, t) == \E i \in 1..Len(s) : s[i] = t

\* s.split(t): the pieces between the occurrences of t (empty ones included).
RECURSIVE splitFrom(_, _, _)
splitFrom(s, t, cur) ==
    IF s = <<>> THEN <<cur>>
    ELSE IF s[1] = t THEN <<cur>> \o splitFrom(Tail(s), t, <<>>)
    ELSE splitFrom(Tail(s), t, Append(cur, s[1]))

split(s, t) == splitFrom(s, t, <<>>)

\* s.split('/').filter(x => x).length
nonEmptySegments(s) == Cardinality({i \in 1..Len(split(s, "/")) : split(s, "/")[i] # <<>>})

\* main.ts:258-270: the URL checks of initializeGit ("ok", or the rejection).
urlCheck(url) ==
    IF url = <<>> THEN "empty"
    ELSE IF endsWith(trim(url), "/")
            \/ (~includes(trim(url), ".git") /\ nonEmptySegments(trim(url)) < 3)
    THEN "incomplete"
    ELSE "ok"

\* gitManager.ts:185-193: the URL check of GitManager.initialize.
managerUrlOk(url) ==
    url = <<>>
    \/ ~(endsWith(trim(url), "/")
         \/ (~includes(trim(url), "/") /\ Len(split(trim(url), "/")) < 3))

\* s.replace(pat, rep): the first occurrence of pat in s replaced by rep.
startsWith(s, pat) == Len(pat) <= Len(s) /\ SubSeq(s, 1, Len(pat)) = pat

RECURSIVE replace(_, _, _)
replace(s, pat, rep) ==
    IF Len(s) < Len(pat) THEN s
    ELSE IF startsWith(s, pat) THEN rep \o SubSeq(s, Len(pat) + 1, Len(s))
    ELSE <<s[1]>> \o replace(Tail(s), pat, rep)

HttpsHost == <<"https:", "/", "/", "github.com", "/">>
SshHost == <<"git@", "github.com", ":">>
TokenHost(token) == <<"https:", "/", "/", "x-access-token:", token, "@", "github.com", "/">>

\* gitManager.ts:129, with the URL written to the log as it is.
maskTokenNone(url) == url

\* gitManager.ts:129: url.replace(/x-access-token:[^@]+@/, 'x-access-token:***@'),
\* the first "x-access-token:" that is followed by at least one token and
\* then "@" has what lies between replaced by "***".
maskToken(url) ==
    LET ats(i) == {j \in (i + 2)..Len(url) : url[j] = "@"}
        hits == {i \in 1..Len(url) : /\ url[i] = "x-access-token:"
                                      /\ ats(i) # {}
                                      /\ \A j \in ats(i) : j > i + 1
                                      /\ url[i + 1] # "@"}
    IN  IF hits = {} THEN url
        ELSE LET i == CHOOSE x \in hits : \A y \in hits : x <= y
                 j == CHOOSE x \in ats(i) : \A y \in ats(i) : x <= y
             IN  SubSeq(url, 1, i) \o <<"***">> \o SubSeq(url, j, Len(url))

\* gitManager.ts:86-120, with the token embedded whenever one is configured.
resolvedUrlTokenAlways(config, keyOk) ==
    IF config.token # ""
    THEN replace(replace(config.remoteUrl, SshHost, HttpsHost),
                 HttpsHost, TokenHost(config.token))
    ELSE config.remoteUrl

\* gitManager.ts:86-120: the URL setupAuthentication registers as origin.
\* keyOk is the result of validateSSHKey(); the call is made only when the
\* SSH branch with an unusable key has a token to fall back to.
resolvedUrl(config, keyOk) ==
    IF config.useSSH
    THEN IF ~keyOk
         THEN replace(replace(replace(config.remoteUrl, SshHost, HttpsHost),
                              <<".git">>, <<>>) \o <<".git">>,
                      HttpsHost, TokenHost(config.token))
         ELSE IF ~startsWith(config.remoteUrl, <<"git@">>)
              THEN replace(config.remoteUrl, HttpsHost, SshHost)
              ELSE config.remoteUrl
    ELSE IF config.token # "" /\ includes(config.remoteUrl, "github.com")
         THEN replace(config.remoteUrl, HttpsHost, TokenHost(config.token))
         ELSE config.remoteUrl

\* ------------------------------------------------------ the commit message
\* A message is a sequence of tokens: the placeholders "{date}" and "{files}",
\* the line break, the bullet "  - ", a path, and the literal pieces of text.
MaxListed == 10
DefaultTemplate == <<"[Obsidian Sync] ", "{date}", "{files}">>

\* files.slice(0, n)
slice(files, n) == SubSeq(files, 1, IF Len(files) < n THEN Len(files) ELSE n)

\* files.map(f => `  - ${f}`).join('\n')
RECURSIVE filesList(_)
filesList(files) ==
    IF files = <<>> THEN <<>>
    ELSE IF Len(files) = 1 THEN <<"  - ", files[1]>>
    ELSE <<"  - ", files[1], "\n">> \o filesList(Tail(files))

\* main.ts:361 (and gitManager.ts:354): the line for the paths left out.
moreFiles(files) ==
    IF Len(files) > MaxListed
    THEN <<"\n", "  ... e mais ", ToString(Len(files) - MaxListed), " arquivo(s)">>
    ELSE <<>>

\* The file block with every path listed, whatever their number.
filesTextUncapped(files) ==
    <<"\n", "Arquivos alterados:", "\n">> \o filesList(files) \o moreFiles(files)

\* main.ts:359-362 (the same four lines are gitManager.ts:352-355).
filesText(files) ==
    <<"\n", "Arquivos alterados:", "\n">> \o filesList(slice(files, MaxListed))
        \o moreFiles(files)

\* main.ts:353-373: getCommitMessage(files); has is FALSE when files is
\* undefined, and "DATE" stands for now.toLocaleString('pt-BR').
getCommitMessage(template, has, files) ==
    LET message == replace(template, <<"{date}">>, <<"DATE">>)
    IN  trim(IF has /\ Len(files) > 0
             THEN replace(message, <<"{files}">>, filesText(files))
             ELSE replace(message, <<"{files}">>, <<>>))

\* gitManager.ts:349-360: the message commitAndPush passes to commit.
finalMessage(message, changedFiles) ==
    trim(IF includes(message, "{files}")
         THEN replace(message, <<"{files}">>, filesText(changedFiles))
         ELSE message)

\* ------------------------------------------------- the repository adapter
\* The working copy and its remote, as far as the plugin's simple-git calls
\* read or change them.
\*   file[f]   "clean" | "modified" | "staged" | "conflicted"
\*   incoming  what the remote branch holds that the local branch lacks:
\*             "none" | "clean" (merges cleanly) | "conflict" (on cpaths)
NoOrigin == [exists |-> FALSE, url |-> <<>>]

statusFiles(r) == {f \in Paths : r.file[f] # "clean"}
statusConflicted(r) == {f \in Paths : r.file[f] = "conflicted"}

Ok(r) == [res |-> "ok", repo |-> r]
Err(kind, r) == [res |-> kind, repo |-> r]

Min(a, b) == IF a < b THEN a ELSE b

\* The outcomes of one adapter call on repository r: the result ("ok", or
\* the kind of error thrown) and the repository afterwards.
git(op, arg, r) ==
    IF op = "revparse" THEN {IF r.isRepo THEN Ok(r) ELSE Err("notrepo", r)}
    ELSE IF op = "init" THEN {Ok([r EXCEPT !.isRepo = TRUE])}
    ELSE IF op = "listRemote" THEN {Ok(r), Err("other", r)}
    ELSE IF ~r.isRepo THEN {Err("other", r)}
    ELSE CASE op \in {"addConfig", "getRemotes", "branchLocal", "status", "log",
                      "checkoutSide"} ->
                {Ok(r)}
           [] op = "removeRemote" ->
                {IF r.origin.exists THEN Ok([r EXCEPT !.origin = NoOrigin])
                 ELSE Err("other", r)}
           [] op = "addRemote" ->
                {IF r.origin.exists THEN Err("exists", r)
                 ELSE Ok([r EXCEPT !.origin = [exists |-> TRUE, url |-> arg]])}
           [] op \in {"checkoutLocalBranch", "checkout"} ->
                {IF statusConflicted(r) # {} THEN Err("other", r)
                 ELSE Ok([r EXCEPT !.branchExists = TRUE, !.current = "main"])}
           [] op = "mergeHead" ->
                {IF r.mergeHead THEN Ok(r) ELSE Err("other", r)}
           [] op = "fetch" ->
                {IF ~r.origin.exists THEN Err("other", r)
                 ELSE IF ~r.remoteBranch THEN Err("refnotfound", r)
                 ELSE Ok(r)}
           [] op = "pull" ->
                IF ~r.origin.exists \/ r.mergeHead \/ statusConflicted(r) # {}
                THEN {Err("other", r)}
                ELSE IF ~r.remoteBranch THEN {Err("refnotfound", r)}
                ELSE IF r.incoming = "none" THEN {Ok(r)}
                ELSE IF r.incoming = "clean" THEN {Ok([r EXCEPT !.incoming = "none"])}
                ELSE IF \E f \in r.cpaths : r.file[f] # "clean"
                THEN {Err("other", r)}
                ELSE LET m == [r EXCEPT !.incoming = "none", !.mergeHead = TRUE,
                                        !.file = [f \in Paths |->
                                            IF f \in r.cpaths THEN "conflicted"
                                            ELSE r.file[f]]]
                     IN  {Ok(m), Err("conflict", m)}
           [] op = "addAll" ->
                {Ok([r EXCEPT !.file = [f \in Paths |->
                        IF r.file[f] = "clean" THEN "clean" ELSE "staged"]])}
           [] op = "add" ->
                {Ok([r EXCEPT !.file[arg] = IF @ = "clean" THEN "clean" ELSE "staged"])}
           [] op = "commit" ->
                {IF statusConflicted(r) # {} THEN Err("other", r)
                 ELSE IF ~r.mergeHead /\ \A f \in Paths : r.file[f] # "staged"
                 THEN Ok(r)
                 ELSE Ok([r EXCEPT !.mergeHead = FALSE,
                                   !.ahead = Min(@ + 1, MaxAhead),
                                   !.file = [f \in Paths |->
                                       IF r.file[f] = "staged" THEN "clean"
                                       ELSE r.file[f]]])}
           [] op = "push" ->
                {IF ~r.origin.exists \/ r.incoming # "none" THEN Err("other", r)
                 ELSE Ok([r EXCEPT !.ahead = 0, !.remoteBranch = TRUE])}
           [] op = "mergeAbort" ->
                {IF ~r.mergeHead THEN Err("other", r)
                 ELSE Ok([r EXCEPT !.mergeHead = FALSE, !.incoming = "conflict",
                                   !.file = [f \in Paths |->
                                       IF r.file[f] = "conflicted" \/ f \in r.cpaths
                                       THEN "clean" ELSE r.file[f]]])}

\* ------------------------------------------------------------------ state
VARIABLES
    settings,           \* MyPlugin.settings (the fields the triggers and init read)
    keyReadable,        \* the file system: the SSH key file exists and is readable
    gitManager,         \* MyPlugin.gitManager: the handle (exists = non-null)
    lastSyncTime,       \* MyPlugin.lastSyncTime
    syncDebounceTimer,  \* MyPlugin.syncDebounceTimer: the timer last set, if any
    timers,             \* the debounce timers that are set and have not fired
    nextTick,           \* when the setInterval callback is next due
    loaded,             \* onload has run and onunload has not
    now,                \* Date.now()
    proc,               \* the running handlers
    repo,               \* the working copy and its remote
    faults, edits, remotes,   \* what the environment has done so far
    burst,              \* history: the current burst of on-save triggers
    lastTick            \* history: what the last interval callback found and did

vars == <<settings, keyReadable, gitManager, lastSyncTime, syncDebounceTimer, timers,
          nextTick, loaded, now, proc, repo, faults, edits, remotes, burst, lastTick>>

StartTime == 100000     \* Date.now() at load (lastSyncTime starts at 0, far behind)
ShortHorizon == 4000    \* the clock advances by single seconds only this long

NoTimer == [set |-> FALSE, deadline |-> 0, file |-> ""]
NullManager ==
    [exists |-> FALSE, isInitialized |-> FALSE, authDone |-> FALSE,
     config |-> [remoteUrl |-> <<>>, token |-> "", useSSH |-> FALSE, branch |-> "main",
                 userName |-> "", userEmail |-> ""]]

\* gitManager.ts:23-35 and main.ts:280-292: new GitManager(config).
newGitManager(s) ==
    [exists |-> TRUE, isInitialized |-> FALSE, authDone |-> FALSE,
     config |-> [remoteUrl |-> s.githubRepoUrl, token |-> s.githubToken,
                 useSSH |-> s.useSSH, branch |-> s.githubBranch,
                 userName |-> s.githubUserName, userEmail |-> s.githubUserEmail]]

\* A handler: kind (which trigger or command), pc (the adapter call awaited),
\* stack (the functions entered, innermost last), the locals that live across
\* awaits, and what it has done: ops (adapter calls made), notices (messages
\* shown to the user), seen (what its status queries found), conflictSet (the
\* conflicted paths resolveConflicts was given), picked (the side checked out
\* of each path), commits (commits made), failedAt (the calls that threw),
\* thrown (each with the kind of error), logged (the lines setupAuthentication
\* wrote to the console), cfgUrl (the remote URL of the
\* settings when it started), message (what getCommitMessage returned),
\* committed (the message passed to commit), result, and the errors and valid
\* that validateConfiguration returned.
IdleProc ==
    [kind |-> "idle", pc |-> "idle", stack |-> <<>>, hasFiles |-> FALSE, files |-> <<>>,
     file |-> "", url |-> <<>>, todo |-> <<>>, strategy |-> "ours",
     ops |-> {}, notices |-> {}, seen |-> {}, conflictSet |-> {}, picked |-> {},
     commits |-> 0, failedAt |-> {}, thrown |-> {}, logged |-> {}, cfgUrl |-> <<>>,
     message |-> <<>>, committed |-> <<>>, result |-> "none",
     errors |-> <<>>, valid |-> FALSE]

\* The paths of S in status order.
RECURSIVE listOf(_)
listOf(S) ==
    IF S = {} THEN <<>>
    ELSE LET f == IF "a.md" \in S THEN "a.md" ELSE CHOOSE x \in S : TRUE
         IN  <<f>> \o listOf(S \ {f})

\* A step works on the bundle st = [p, m, r, last]: the handler's record, the
\* handle, the repository and lastSyncTime.
Issue(st, op, pc) == [st EXCEPT !.p.pc = pc, !.p.ops = @ \cup {op}]
Notice(st, n) == [st EXCEPT !.p.notices = @ \cup {n}]
See(st, x) == [st EXCEPT !.p.seen = @ \cup {x}]
Enter(st, f) == [st EXCEPT !.p.stack = Append(@, f)]
Leave(st) == [st EXCEPT !.p.stack = SubSeq(@, 1, Len(@) - 1)]
Caller(st) == st.p.stack[Len(st.p.stack) - 1]
Return(st, res) == [st EXCEPT !.p.pc = "done", !.p.stack = <<>>, !.p.result = res]
InFrame(p, f) == \E i \in 1..Len(proc[p].stack) : proc[p].stack[i] = f

RECURSIVE retInitializeGit(_, _), retInitialize(_, _), retSetupAuthentication(_, _),
          retPull(_, _), retCommitAndPush(_, _), retFullSync(_, _),
          retResolveConflicts(_, _), callPerformSync(_), callInitializeGit(_),
          callInitialize(_), callSetupAuthentication(_), callPull(_),
          callCommitAndPush(_), callFullSync(_), performSyncBody(_)

\* gitManager.ts:40-64: validateSSHKey (sshKeyPath is set in every configuration).
validateSSHKey == keyReadable

\* ---- GitManager.setupAuthentication, gitManager.ts:69-145
callSetupAuthentication(st) ==
    LET s == Enter(st, "setupAuthentication")
    IN  IF s.m.config.remoteUrl = <<>> THEN retSetupAuthentication(s, FALSE)
        ELSE Issue(s, "getRemotes", "S_getRemotes")

\* gitManager.ts:79-128, with the remote registered whatever the key and the
\* token are.
afterGetRemotesKeyUnchecked(st, o) ==
    LET s == [st EXCEPT !.p.url = resolvedUrl(st.m.config, validateSSHKey)]
    IN  IF o.res = "ok" /\ st.r.origin.exists THEN Issue(s, "removeRemote", "S_remove")
        ELSE Issue(s, "addRemote", "S_add")

\* gitManager.ts:79-128, with an existing origin not removed before the add.
afterGetRemotesAddOnly(st, o) ==
    LET c == st.m.config
    IN  IF c.useSSH /\ ~validateSSHKey /\ c.token = ""
        THEN retSetupAuthentication(st, FALSE)
        ELSE Issue([st EXCEPT !.p.url = resolvedUrl(c, validateSSHKey)],
                   "addRemote", "S_add")

\* gitManager.ts:79-128: after getRemotes, resolve the URL and register it.
afterGetRemotes(st, o) ==
    LET originExists == o.res = "ok" /\ st.r.origin.exists
        c == st.m.config
    IN  IF c.useSSH /\ ~validateSSHKey /\ c.token = ""
        THEN retSetupAuthentication(st, FALSE)
        ELSE LET s == [st EXCEPT !.p.url = resolvedUrl(c, validateSSHKey)]
             IN  IF originExists THEN Issue(s, "removeRemote", "S_remove")
                 ELSE Issue(s, "addRemote", "S_add")

\* gitManager.ts:141-144: the catch block logs the adapter's error, whose
\* text is git's message for the kind of failure.
setupCatch(st, o) ==
    retSetupAuthentication([st EXCEPT !.p.logged =
                                @ \cup {<<"Erro ao configurar autenticacao:", o.res>>}],
                           FALSE)

\* gitManager.ts:124-138
afterRemoveRemote(st, o) ==
    IF o.res = "ok" THEN Issue(st, "addRemote", "S_add")
    ELSE IF o.res = "exists" THEN Issue(st, "removeRemote", "S_remove2")
    ELSE setupCatch(st, o)

\* gitManager.ts:128-140: the URL registered is logged with the token masked.
afterAddRemote(st, o) ==
    IF o.res = "ok"
    THEN retSetupAuthentication([st EXCEPT !.p.logged =
                                     @ \cup {<<"Remote origin configurado:">>
                                                \o maskToken(st.p.url)}],
                                TRUE)
    ELSE IF o.res = "exists" THEN Issue(st, "removeRemote", "S_remove2")
    ELSE setupCatch(st, o)

\* gitManager.ts:132-134 (the retry in the catch block)
afterRemoveRemote2(st, o) ==
    IF o.res = "ok" THEN Issue(st, "addRemote", "S_add2")
    ELSE setupCatch(st, o)

afterAddRemote2(st, o) ==
    IF o.res = "ok" THEN retSetupAuthentication(st, TRUE) ELSE setupCatch(st, o)

\* The return of setupAuthentication to initialize (gitManager.ts:206-221) or
\* to pull (gitManager.ts:276-284, which ignores the result).
retSetupAuthentication(st, ok) ==
    LET s == Leave([st EXCEPT !.m.authDone = @ \/ ok])
    IN  IF Caller(st) = "initialize"
        THEN IF ok THEN Issue(s, "branchLocal", "I_branchLocal")
             ELSE retInitialize(Notice(s, "authError"), FALSE)
        ELSE Issue(s, "fetch", "P_fetch")

\* ---- GitManager.initialize, gitManager.ts:150-239
callInitialize(st) == Issue(Enter(st, "initialize"), "revparse", "I_revparse")

\* gitManager.ts:184-198: the URL check, then the identity.
afterRepoCheck(st) ==
    IF ~managerUrlOk(st.m.config.remoteUrl)
    THEN retInitialize(Notice(st, "urlIncomplete"), FALSE)
    ELSE Issue(st, "addConfig", "I_cfgName")

\* gitManager.ts:155-177
afterRevparse(st, o) ==
    IF o.res = "ok" THEN afterRepoCheck(st)
    ELSE IF o.res = "notrepo" THEN Issue(st, "init", "I_init")
    ELSE retInitialize(Notice(st, "initError"), FALSE)

\* gitManager.ts:164-173
afterInit(st, o) ==
    IF o.res = "ok" THEN afterRepoCheck(st)
    ELSE retInitialize(Notice(st, "initError"), FALSE)

\* gitManager.ts:196-206: a failure to set the identity is only a warning.
afterConfigName(st, o) ==
    IF o.res = "ok" THEN Issue(st, "addConfig", "I_cfgEmail")
    ELSE callSetupAuthentication(st)

afterConfigEmail(st, o) == callSetupAuthentication(st)

\* gitManager.ts:230-232
initialized(st) == retInitialize([st EXCEPT !.m.isInitialized = TRUE], TRUE)

\* gitManager.ts:217-228: a failure of the branch step is only a warning.
afterBranchLocal(st, o) ==
    IF o.res # "ok" THEN initialized(st)
    ELSE IF ~st.r.branchExists THEN Issue(st, "checkoutLocalBranch", "I_checkout")
    ELSE Issue(st, "checkout", "I_checkout")

afterCheckout(st, o) == initialized(st)

\* The return of initialize to initializeGit (main.ts:293-301), to pull
\* (gitManager.ts:246-255) or to commitAndPush (gitManager.ts:331-336, which
\* ignores the result).
retInitialize(st, ok) ==
    LET s == Leave(st)
    IN  CASE Caller(st) = "initializeGit" -> retInitializeGit(s, ok)
          [] Caller(st) = "pull" ->
                IF ok THEN Issue(s, "status", "P_status")
                ELSE retPull(Notice(s, "pullInitError"), FALSE)
          [] OTHER -> Issue(s, "status", "C_status")

\* ---- GitManager.pull, gitManager.ts:244-324
callPull(st) ==
    LET s == Enter(st, "pull")
    IN  IF ~s.m.isInitialized THEN callInitialize(s)
        ELSE Issue(s, "status", "P_status")

\* gitManager.ts:307-323: the catch block of pull.
pullCatch(st) == retPull(Notice(st, "pullError"), FALSE)

\* gitManager.ts:255-272: MERGE_HEAD is looked for only off the configured branch.
afterPullStatus(st, o) ==
    IF o.res # "ok" THEN pullCatch(st)
    ELSE IF st.r.current # st.m.config.branch THEN Issue(st, "mergeHead", "P_mergeHead")
    ELSE Issue(st, "getRemotes", "P_getRemotes")

\* gitManager.ts:258-271, with the answer of the MERGE_HEAD query not used.
afterMergeHeadIgnored(st, o) == Issue(st, "getRemotes", "P_getRemotes")

\* gitManager.ts:258-271
afterMergeHead(st, o) ==
    IF o.res = "ok" THEN retPull(Notice(st, "mergeInProgress"), FALSE)
    ELSE Issue(st, "getRemotes", "P_getRemotes")

\* gitManager.ts:270-284
afterPullRemotes(st, o) ==
    IF o.res = "ok" /\ ~st.r.origin.exists /\ st.m.config.remoteUrl # <<>>
    THEN callSetupAuthentication(st)
    ELSE Issue(st, "fetch", "P_fetch")

\* gitManager.ts:283-296, with a failed fetch tried again.
afterFetchRetry(st, o) ==
    IF o.res # "ok" THEN Issue(st, "fetch", "P_fetch")
    ELSE Issue(st, "pull", "P_pull")

\* gitManager.ts:283-296, with every error of the fetch ending the pull.
afterFetchStrict(st, o) ==
    IF o.res = "refnotfound" THEN retPull(Notice(st, "remoteBranchMissing"), FALSE)
    ELSE IF o.res # "ok" THEN pullCatch(st)
    ELSE Issue(st, "pull", "P_pull")

\* gitManager.ts:283-296
afterFetch(st, o) ==
    IF o.res = "refnotfound" THEN retPull(Notice(st, "remoteBranchMissing"), FALSE)
    ELSE Issue(st, "pull", "P_pull")

\* gitManager.ts:296-300
afterPull(st, o) ==
    IF o.res = "ok" THEN Issue(st, "status", "P_status2") ELSE pullCatch(st)

\* gitManager.ts:300-306: conflicts after the pull are announced; pull returns true.
afterStatusAfterPull(st, o) ==
    IF o.res # "ok" THEN pullCatch(st)
    ELSE IF statusConflicted(st.r) # {}
    THEN retPull(Notice(See(st, "pullConflicts"), "conflictsAfterPull"), TRUE)
    ELSE retPull(See(st, "pullClean"), TRUE)

\* gitManager.ts:403-421, with the result of pull not looked at by fullSync.
retPullUnchecked(st, ok) ==
    LET s == Leave(st)
    IN  IF Caller(st) = "fullSync"
        THEN IF ~s.p.hasFiles THEN Issue(s, "status", "F_status")
             ELSE callCommitAndPush(s)
        ELSE IF ok THEN Issue(s, "status", "PC_status")
             ELSE Return(s, "fail")

\* The return of pull to fullSync (gitManager.ts:403-421) or to the pull
\* command (main.ts:49-57).
retPull(st, ok) ==
    LET s == Leave(st)
    IN  IF Caller(st) = "fullSync"
        THEN IF ~ok THEN retFullSync(Notice(s, "pullFailed"), FALSE)
             ELSE IF ~s.p.hasFiles THEN Issue(s, "status", "F_status")
             ELSE callCommitAndPush(s)
        ELSE IF ok THEN Issue(s, "status", "PC_status")
             ELSE Return(s, "fail")

\* ---- GitManager.commitAndPush, gitManager.ts:329-371
callCommitAndPush(st) ==
    LET s == Enter(st, "commitAndPush")
    IN  IF ~s.m.isInitialized THEN callInitialize(s)
        ELSE Issue(s, "status", "C_status")

\* gitManager.ts:344: const changedFiles = files || status.files.map(...)
withChangedFiles(st) ==
    IF st.p.hasFiles THEN st
    ELSE [st EXCEPT !.p.hasFiles = TRUE, !.p.files = listOf(statusFiles(st.r))]

\* gitManager.ts:336-347, with the check for an empty status left out.
afterCommitStatusNoCheck(st, o) ==
    IF o.res # "ok" THEN retCommitAndPush(st, FALSE)
    ELSE Issue(withChangedFiles(IF statusFiles(st.r) = {}
                                THEN See(st, "nothingToCommit") ELSE st),
               "addAll", "C_add")

\* gitManager.ts:336-347
afterCommitStatus(st, o) ==
    IF o.res # "ok" THEN retCommitAndPush(st, FALSE)
    ELSE IF statusFiles(st.r) = {} THEN retCommitAndPush(See(st, "nothingToCommit"), TRUE)
    ELSE Issue(withChangedFiles(st), "addAll", "C_add")

\* gitManager.ts:347-360
afterAddAll(st, o) ==
    IF o.res = "ok"
    THEN Issue([st EXCEPT !.p.committed = finalMessage(st.p.message, st.p.files)],
               "commit", "C_commit")
    ELSE retCommitAndPush(st, FALSE)

\* gitManager.ts:360-363
afterCommit(st, o) ==
    IF o.res = "ok" THEN Issue([st EXCEPT !.p.commits = @ + 1], "push", "C_push")
    ELSE retCommitAndPush(st, FALSE)

\* gitManager.ts:363-370
afterPush(st, o) == retCommitAndPush(st, o.res = "ok")

\* The return of commitAndPush to fullSync (gitManager.ts:421-428) or to the
\* push command (main.ts:86-89).
retCommitAndPush(st, ok) ==
    LET s == Leave(st)
    IN  IF Caller(st) = "fullSync"
        THEN IF ok THEN retFullSync(Notice(s, "syncComplete"), TRUE)
             ELSE retFullSync(Notice(s, "commitPushFailed"), FALSE)
        ELSE IF ok THEN Return(Notice(s, "pushOk"), "ok")
             ELSE Return(s, "fail")

\* ---- GitManager.fullSync, gitManager.ts:400-434
callFullSync(st) == callPull(Enter(st, "fullSync"))

\* gitManager.ts:410-421
afterFullSyncStatus(st, o) ==
    callCommitAndPush(IF o.res = "ok"
                      THEN [st EXCEPT !.p.hasFiles = TRUE,
                                      !.p.files = listOf(statusFiles(st.r))]
                      ELSE st)

\* main.ts:338-343, with the time stamped only after a successful fullSync.
retFullSyncStampOnSuccess(st, ok) ==
    Return(IF ok THEN [Leave(st) EXCEPT !.last = now] ELSE Leave(st),
           IF ok THEN "ok" ELSE "fail")

\* main.ts:338-343: fullSync returns to performSync, which stamps the time.
retFullSync(st, ok) ==
    Return([Leave(st) EXCEPT !.last = now], IF ok THEN "ok" ELSE "fail")

\* ---- MyPlugin.performSync, main.ts:313-348
callPerformSync(st) ==
    LET s == Enter(st, "performSync")
    IN  IF ~s.m.exists THEN callInitializeGit(s) ELSE performSyncBody(s)

\* main.ts:335: const commitMessage = this.getCommitMessage(files)
withCommitMessage(st) ==
    [st EXCEPT !.p.message = getCommitMessage(settings.commitMessageTemplate,
                                              st.p.hasFiles, st.p.files)]

\* main.ts:322-338
performSyncBody(st) ==
    IF ~st.p.hasFiles /\ st.m.exists THEN Issue(st, "status", "PS_status")
    ELSE callFullSync(withCommitMessage(st))

\* main.ts:326-338 (getStatus, gitManager.ts:376-383, returns null on an error)
afterPerformSyncStatus(st, o) ==
    callFullSync(withCommitMessage(IF o.res = "ok"
                                   THEN [st EXCEPT !.p.hasFiles = TRUE,
                                                   !.p.files = listOf(statusFiles(st.r))]
                                   ELSE st))

\* ---- MyPlugin.initializeGit, main.ts:256-308
callInitializeGit(st) ==
    LET s == Enter(st, "initializeGit")
        check == urlCheck(settings.githubRepoUrl)
    IN  IF check = "empty" THEN retInitializeGit(Notice(s, "urlNotConfigured"), FALSE)
        ELSE IF check = "incomplete"
        THEN retInitializeGit(Notice(s, "urlIncomplete"), FALSE)
        ELSE IF ~s.m.exists
        THEN callInitialize([s EXCEPT !.m = newGitManager(settings)])
        ELSE retInitializeGit(s, TRUE)

\* ---- GitManager.validateConfiguration, gitManager.ts:515-560
\* gitManager.ts:539-545, with the key of SSH mode not looked at.
authErrorsKeyUnchecked(c, keyOk) ==
    IF c.useSSH THEN <<>>
    ELSE IF c.token = "" THEN <<"token">> ELSE <<>>

\* gitManager.ts:539-545: the error of the authentication mode.
authErrors(c, keyOk) ==
    IF c.useSSH THEN (IF ~keyOk THEN <<"sshKey">> ELSE <<>>)
    ELSE IF c.token = "" THEN <<"token">> ELSE <<>>

\* gitManager.ts:516-545: the errors found before the remote is contacted.
configErrors(c, keyOk) ==
    (IF c.remoteUrl = <<>> THEN <<"remoteUrl">> ELSE <<>>)
    \o (IF c.branch = "" THEN <<"branch">> ELSE <<>>)
    \o (IF c.userName = "" THEN <<"userName">> ELSE <<>>)
    \o (IF c.userEmail = "" THEN <<"userEmail">> ELSE <<>>)
    \o authErrors(c, keyOk)

\* gitManager.ts:556-559 and main.ts:105-110
retValidateConfiguration(st) ==
    LET valid == Len(st.p.errors) = 0
        s == [Leave(st) EXCEPT !.p.valid = valid]
    IN  IF valid THEN Return(Notice(s, "configValid"), "ok")
        ELSE Return(Notice(s, "configErrors"), "fail")

\* gitManager.ts:515-550
callValidateConfiguration(st) ==
    LET s == [Enter(st, "validateConfiguration")
                EXCEPT !.p.errors = configErrors(st.m.config, validateSSHKey)]
    IN  IF s.m.config.remoteUrl # <<>> THEN Issue(s, "listRemote", "V_listRemote")
        ELSE retValidateConfiguration(s)

\* gitManager.ts:549-559
afterListRemote(st, o) ==
    retValidateConfiguration(IF o.res = "ok" THEN st
                             ELSE [st EXCEPT !.p.errors = Append(@, "remote")])

\* What each command does once the handle exists.
\* main.ts:49 (pull), 75-83 (push), 105 (validate), 148 (resolve), 174 (abort)
commandBody(st) ==
    CASE st.p.kind = "pull" -> callPull(st)
      [] st.p.kind = "validate" -> callValidateConfiguration(st)
      [] st.p.kind = "push" -> Issue(st, "status", "U_status")
      [] st.p.kind = "resolve" -> Issue(st, "status", "RC_status")
      [] st.p.kind = "status" -> Issue(st, "status", "G_status")
      [] OTHER -> Issue(st, "mergeAbort", "A_merge")

\* The return of initializeGit to performSync (main.ts:316-320), to a trigger
\* handler (main.ts:191-192, 207-210, 225-226: the result is ignored) or to a
\* command (main.ts:38-48, 66-72, 141-147, 167-173).
retInitializeGit(st, ok) ==
    LET s == Leave(st)
    IN  CASE Caller(st) = "performSync" ->
                IF ok THEN performSyncBody(s) ELSE Return(s, "fail")
          [] Caller(st) = "handler" -> callPerformSync(s)
          [] OTHER ->
                IF (s.p.kind = "pull" /\ ~ok) \/ ~s.m.exists
                THEN Return(Notice(s, "notConfigured"), "fail")
                ELSE commandBody(s)

\* main.ts:38-48, 66-72, 141-147, 167-173: a command starts.
callCommand(st) ==
    LET s == Enter(st, "command")
    IN  IF ~s.m.exists THEN callInitializeGit(s) ELSE commandBody(s)

\* main.ts:123-132 and gitManager.ts:565-585: the status command shows what
\* getSyncInfo read with git.status and git.log, or that it could not.
afterGetSyncInfo(st, o) ==
    IF o.res # "ok" THEN Return(Notice(st, "statusFailed"), "fail")
    ELSE IF st.p.pc = "G_status" THEN Issue(st, "log", "G_log")
    ELSE Return(Notice(st, "statusShown"), "ok")

\* main.ts:50-57: the pull command asks hasConflicts (gitManager.ts:439-447).
afterPullCommandStatus(st, o) ==
    IF o.res = "ok" /\ statusConflicted(st.r) # {} THEN Return(st, "ok")
    ELSE Return(Notice(st, "pullOk"), "ok")

\* main.ts:75-86: the push command lists the changed files, then commits.
afterPushCommandStatus(st, o) ==
    callCommitAndPush(withCommitMessage(IF o.res = "ok"
                                        THEN [st EXCEPT !.p.hasFiles = TRUE,
                                                        !.p.files = listOf(statusFiles(st.r))]
                                        ELSE st))

\* main.ts:174-179 and gitManager.ts:501-510
afterMergeAbort(st, o) ==
    IF o.res = "ok" THEN Return(Notice(st, "mergeAborted"), "ok")
    ELSE Return(Notice(st, "abortFailed"), "fail")

\* ---- GitManager.resolveConflicts, gitManager.ts:465-496
\* main.ts:148-153: hasConflicts, then resolveConflicts -> getConflictedFiles.
afterResolveCommandStatus(st, o) ==
    IF o.res = "ok" /\ statusConflicted(st.r) # {}
    THEN Issue(Enter(st, "resolveConflicts"), "status", "R_status")
    ELSE Return(Notice(st, "noConflicts"), "ok")

\* gitManager.ts:476-483: check out the chosen side of the next file.
checkoutNext(st) == Issue(st, "checkoutSide", "R_checkout")

\* gitManager.ts:467-476, with the early return for an empty list left out.
afterConflictedFilesNoReturn(st, o) ==
    LET files == IF o.res = "ok" THEN listOf(statusConflicted(st.r)) ELSE <<>>
        s == [st EXCEPT !.p.todo = files, !.p.conflictSet = statusConflicted(st.r)]
    IN  IF files = <<>> THEN Issue(s, "commit", "R_commit") ELSE checkoutNext(s)

\* gitManager.ts:467-476 (getConflictedFiles, gitManager.ts:452-460, returns []
\* on an error)
afterConflictedFiles(st, o) ==
    LET files == IF o.res = "ok" THEN listOf(statusConflicted(st.r)) ELSE <<>>
        s == [st EXCEPT !.p.todo = files, !.p.conflictSet = statusConflicted(st.r)]
    IN  IF files = <<>> THEN retResolveConflicts(s, TRUE) ELSE checkoutNext(s)

\* In a merge made by pull, --ours is the local side and --theirs the remote.
sideOf(flag) == IF flag = "--ours" THEN "local" ELSE "remote"

\* gitManager.ts:477-483, with the two flags exchanged.
checkoutFlagSwapped(strategy) == IF strategy = "ours" THEN "--theirs" ELSE "--ours"

\* gitManager.ts:477-483: the flag passed to checkout for a strategy.
checkoutFlag(strategy) == IF strategy = "ours" THEN "--ours" ELSE "--theirs"

\* gitManager.ts:477-485
afterCheckoutSide(st, o) ==
    IF o.res = "ok"
    THEN Issue([st EXCEPT !.p.picked =
                    @ \cup {<<st.p.todo[1], sideOf(checkoutFlag(st.p.strategy))>>}],
               "add", "R_add")
    ELSE retResolveConflicts(st, FALSE)

\* gitManager.ts:485-489
afterAddFile(st, o) ==
    IF o.res # "ok" THEN retResolveConflicts(st, FALSE)
    ELSE LET s == [st EXCEPT !.p.todo = Tail(@)]
         IN  IF s.p.todo # <<>> THEN checkoutNext(s) ELSE Issue(s, "commit", "R_commit")

\* gitManager.ts:489-495
afterMergeCommit(st, o) ==
    IF o.res = "ok" THEN retResolveConflicts([st EXCEPT !.p.commits = @ + 1], TRUE)
    ELSE retResolveConflicts(st, FALSE)

\* main.ts:153-158
retResolveConflicts(st, ok) ==
    IF ok THEN Return(Notice(Leave(st), "resolved"), "ok")
    ELSE Return(Notice(Leave(st), "resolveFailed"), "fail")

\* ---------------------------------------------------------------- actions
\* The adapter call a suspended handler awaits, and its argument.
opOf(pc) ==
    CASE pc = "I_revparse" -> "revparse"
      [] pc = "I_init" -> "init"
      [] pc \in {"I_cfgName", "I_cfgEmail"} -> "addConfig"
      [] pc = "I_branchLocal" -> "branchLocal"
      [] pc \in {"S_getRemotes", "P_getRemotes"} -> "getRemotes"
      [] pc \in {"S_remove", "S_remove2"} -> "removeRemote"
      [] pc \in {"S_add", "S_add2"} -> "addRemote"
      [] pc = "P_mergeHead" -> "mergeHead"
      [] pc = "P_fetch" -> "fetch"
      [] pc = "P_pull" -> "pull"
      [] pc = "C_add" -> "addAll"
      [] pc \in {"C_commit", "R_commit"} -> "commit"
      [] pc = "C_push" -> "push"
      [] pc = "R_checkout" -> "checkoutSide"
      [] pc = "R_add" -> "add"
      [] pc = "A_merge" -> "mergeAbort"
      [] pc = "V_listRemote" -> "listRemote"
      [] pc = "G_log" -> "log"
      [] OTHER -> "status"

argOf(q) ==
    CASE q.pc \in {"S_add", "S_add2"} -> q.url
      [] q.pc \in {"R_checkout", "R_add"} -> q.todo[1]
      [] OTHER -> ""

\* I_checkout awaits checkoutLocalBranch or checkout, which act alike here.
outcomes(q) ==
    {[res |-> o.res, repo |-> o.repo, fault |-> FALSE] :
        o \in git(IF q.pc = "I_checkout" THEN "checkout" ELSE opOf(q.pc), argOf(q), repo)}
    \cup (IF faults > 0 THEN {[res |-> "other", repo |-> repo, fault |-> TRUE]} ELSE {})

after(st, o) ==
    CASE st.p.pc = "I_revparse" -> afterRevparse(st, o)
      [] st.p.pc = "I_init" -> afterInit(st, o)
      [] st.p.pc = "I_cfgName" -> afterConfigName(st, o)
      [] st.p.pc = "I_cfgEmail" -> afterConfigEmail(st, o)
      [] st.p.pc = "I_branchLocal" -> afterBranchLocal(st, o)
      [] st.p.pc = "I_checkout" -> afterCheckout(st, o)
      [] st.p.pc = "S_getRemotes" -> afterGetRemotes(st, o)
      [] st.p.pc = "S_remove" -> afterRemoveRemote(st, o)
      [] st.p.pc = "S_add" -> afterAddRemote(st, o)
      [] st.p.pc = "S_remove2" -> afterRemoveRemote2(st, o)
      [] st.p.pc = "S_add2" -> afterAddRemote2(st, o)
      [] st.p.pc = "P_status" -> afterPullStatus(st, o)
      [] st.p.pc = "P_mergeHead" -> afterMergeHead(st, o)
      [] st.p.pc = "P_getRemotes" -> afterPullRemotes(st, o)
      [] st.p.pc = "P_fetch" -> afterFetch(st, o)
      [] st.p.pc = "P_pull" -> afterPull(st, o)
      [] st.p.pc = "P_status2" -> afterStatusAfterPull(st, o)
      [] st.p.pc = "F_status" -> afterFullSyncStatus(st, o)
      [] st.p.pc = "C_status" -> afterCommitStatus(st, o)
      [] st.p.pc = "C_add" -> afterAddAll(st, o)
      [] st.p.pc = "C_commit" -> afterCommit(st, o)
      [] st.p.pc = "C_push" -> afterPush(st, o)
      [] st.p.pc = "PS_status" -> afterPerformSyncStatus(st, o)
      [] st.p.pc = "PC_status" -> afterPullCommandStatus(st, o)
      [] st.p.pc = "U_status" -> afterPushCommandStatus(st, o)
      [] st.p.pc = "RC_status" -> afterResolveCommandStatus(st, o)
      [] st.p.pc = "R_status" -> afterConflictedFiles(st, o)
      [] st.p.pc = "R_checkout" -> afterCheckoutSide(st, o)
      [] st.p.pc = "R_add" -> afterAddFile(st, o)
      [] st.p.pc = "R_commit" -> afterMergeCommit(st, o)
      [] st.p.pc = "V_listRemote" -> afterListRemote(st, o)
      [] st.p.pc \in {"G_status", "G_log"} -> afterGetSyncInfo(st, o)
      [] OTHER -> afterMergeAbort(st, o)

Bundle(q, r) == [p |-> q, m |-> gitManager, r |-> r, last |-> lastSyncTime]

Commit(p, st) ==
    /\ proc' = [proc EXCEPT ![p] = st.p]
    /\ gitManager' = st.m
    /\ repo' = st.r
    /\ lastSyncTime' = st.last

\* The adapter call that handler p awaits completes and p runs on.
Resume(p) ==
    \E o \in outcomes(proc[p]) :
        /\ Commit(p, after(Bundle([proc[p] EXCEPT
                                    !.failedAt = IF o.res = "ok" THEN @
                                                 ELSE @ \cup {proc[p].pc},
                                    !.thrown = IF o.res = "ok" THEN @
                                               ELSE @ \cup {<<proc[p].pc, o.res>>}],
                                   o.repo), o))
        /\ faults' = IF o.fault THEN faults - 1 ELSE faults
        /\ UNCHANGED <<settings, keyReadable, syncDebounceTimer, timers, nextTick, loaded,
                       now, edits, remotes, burst, lastTick>>

At(p, prefix) == proc[p].pc \in prefix

InitializeStep(p) ==
    /\ At(p, {"I_revparse", "I_init", "I_cfgName", "I_cfgEmail", "I_branchLocal", "I_checkout"})
    /\ Resume(p)

SetupAuthenticationStep(p) ==
    /\ At(p, {"S_getRemotes", "S_remove", "S_add", "S_remove2", "S_add2"})
    /\ Resume(p)

PullStep(p) ==
    /\ At(p, {"P_status", "P_mergeHead", "P_getRemotes", "P_fetch", "P_pull", "P_status2"})
    /\ Resume(p)

FullSyncStep(p) == At(p, {"F_status"}) /\ Resume(p)

CommitAndPushStep(p) ==
    /\ At(p, {"C_status", "C_add", "C_commit", "C_push"})
    /\ Resume(p)

PerformSyncStep(p) == At(p, {"PS_status"}) /\ Resume(p)

CommandStep(p) ==
    /\ At(p, {"PC_status", "U_status", "RC_status", "A_merge", "G_status", "G_log"})
    /\ Resume(p)

ValidateConfigurationStep(p) == At(p, {"V_listRemote"}) /\ Resume(p)

ResolveConflictsStep(p) ==
    /\ At(p, {"R_status", "R_checkout", "R_add", "R_commit"})
    /\ Resume(p)

\* The handler's promise has settled; its record is dropped.
Finish(p) ==
    /\ proc[p].pc = "done"
    /\ proc' = [proc EXCEPT ![p] = IdleProc]
    /\ UNCHANGED <<settings, keyReadable, gitManager, lastSyncTime, syncDebounceTimer,
                   timers, nextTick, loaded, now, repo, faults, edits, remotes, burst,
                   lastTick>>

\* A handler starts in slot p and runs to its first adapter call.
Start(q) == Bundle([q EXCEPT !.cfgUrl = settings.githubRepoUrl], repo)

Begin(p, st) == Commit(p, st)

\* main.ts:16-18, 25-31: the ribbon icon and the manual sync command.
ManualSync(p) ==
    /\ loaded /\ proc[p].pc = "idle"
    /\ Begin(p, callPerformSync(Start([IdleProc EXCEPT !.kind = "manual"])))
    /\ UNCHANGED <<settings, keyReadable, syncDebounceTimer, timers, nextTick, loaded,
                   now, faults, edits, remotes, burst, lastTick>>

\* main.ts:34-59, 62-91, 137-160, 163-181: the pull, push, resolve-conflicts
\* and abort-merge commands.  The resolve command passes 'ours'; 'theirs' is
\* resolveConflicts' other strategy.
Command(p, kind, strategy) ==
    /\ loaded /\ proc[p].pc = "idle"
    /\ Begin(p, callCommand(Start([IdleProc EXCEPT !.kind = kind, !.strategy = strategy])))
    /\ UNCHANGED <<settings, keyReadable, syncDebounceTimer, timers, nextTick, loaded,
                   now, faults, edits, remotes, burst, lastTick>>

\* main.ts:191-192, 207-210, 225-226: initializeGit, then performSync.
callHandler(st) == callInitializeGit(Enter(st, "handler"))

\* main.ts:187-195: a file is created (or the vault is loaded).
VaultCreate(p) ==
    /\ loaded /\ proc[p].pc = "idle"
    /\ settings.autoSyncOnOpen /\ settings.githubRepoUrl # <<>>
    /\ Begin(p, callHandler(Start([IdleProc EXCEPT !.kind = "create"])))
    /\ UNCHANGED <<settings, keyReadable, syncDebounceTimer, timers, nextTick, loaded,
                   now, faults, edits, remotes, burst, lastTick>>

\* main.ts:202-204, 239-241: clearTimeout(this.syncDebounceTimer).
clearTimeoutForgotten(ts, t) == ts

clearTimeout(ts, t) ==
    IF t.set THEN ts \ {[deadline |-> t.deadline, file |-> t.file]} ELSE ts

\* main.ts:206-211: setTimeout(..., 2000).
setTimeoutAt(t) == t + DebounceMs

\* main.ts:198-214: a file of the vault is saved.  The history variable burst
\* follows the triggers: a trigger less than the window after the previous
\* one continues the burst, any other one opens a new burst.
VaultModify(f) ==
    /\ loaded
    /\ repo' = [repo EXCEPT !.file[f] = IF @ = "clean" THEN "modified" ELSE @]
    /\ IF settings.autoSyncOnSave /\ settings.githubRepoUrl # <<>>
       THEN /\ syncDebounceTimer' = [set |-> TRUE, deadline |-> setTimeoutAt(now), file |-> f]
            /\ timers' = clearTimeout(timers, syncDebounceTimer)
                            \cup {[deadline |-> setTimeoutAt(now), file |-> f]}
       ELSE UNCHANGED <<syncDebounceTimer, timers>>
    /\ IF settings.autoSyncOnSave
       THEN LET continues == burst.open /\ now - burst.lastTime < DebounceMs
            IN  burst' = [open |-> TRUE, lastTime |-> now, lastFile |-> f,
                          n |-> IF continues THEN Min(burst.n + 1, 3) ELSE 1,
                          urlSet |-> (continues => burst.urlSet)
                                     /\ settings.githubRepoUrl # <<>>,
                          cycles |-> IF continues THEN burst.cycles ELSE 0,
                          cycleFile |-> IF continues THEN burst.cycleFile ELSE "",
                          cycleAt |-> IF continues THEN burst.cycleAt ELSE 0]
       ELSE UNCHANGED burst
    /\ UNCHANGED <<settings, keyReadable, gitManager, lastSyncTime, nextTick, loaded, now,
                   proc, faults, edits, remotes, lastTick>>

\* main.ts:206-211: a debounce timer fires; its callback runs initializeGit and
\* then performSync with the file of the trigger that set it.
DebounceFire(p) ==
    \E t \in timers :
        /\ now >= t.deadline /\ proc[p].pc = "idle"
        /\ timers' = timers \ {t}
        /\ burst' = [burst EXCEPT !.cycles = @ + 1, !.cycleFile = t.file, !.cycleAt = now]
        /\ Begin(p, callHandler(Start([IdleProc EXCEPT !.kind = "save", !.file = t.file,
                                     !.hasFiles = TRUE, !.files = <<t.file>>])))
        /\ UNCHANGED <<settings, keyReadable, syncDebounceTimer, nextTick, loaded, now,
                       faults, edits, remotes, lastTick>>

\* main.ts:219-224, with the time of the last sync not subtracted.
tickDueSinceLoad(s, last, t) ==
    /\ s.syncInterval > 0 /\ s.githubRepoUrl # <<>>
    /\ t - StartTime >= s.syncInterval * MsPerMinute

\* main.ts:219-224: the test of the interval callback.
tickDue(s, last, t) ==
    /\ s.syncInterval > 0 /\ s.githubRepoUrl # <<>>
    /\ t - last >= s.syncInterval * MsPerMinute

\* main.ts:217-230: the setInterval callback, once a minute.
IntervalTick(p) ==
    /\ loaded /\ now >= nextTick
    /\ nextTick' = nextTick + TickMs
    /\ lastTick' = [n |-> lastTick.n + 1, elapsed |-> now - lastSyncTime,
                    interval |-> settings.syncInterval,
                    urlSet |-> settings.githubRepoUrl # <<>>,
                    started |-> tickDue(settings, lastSyncTime, now)]
    /\ IF tickDue(settings, lastSyncTime, now)
       THEN /\ proc[p].pc = "idle"
            /\ Begin(p, callHandler(Start([IdleProc EXCEPT !.kind = "interval"])))
       ELSE UNCHANGED <<proc, gitManager, repo, lastSyncTime>>
    /\ UNCHANGED <<settings, keyReadable, syncDebounceTimer, timers, loaded, now, faults,
                   edits, remotes, burst>>

\* main.ts:235-243: onunload.  (this.syncInterval is never assigned; the
\* interval registered with registerInterval is cleared by the host.)
Unload ==
    /\ loaded
    /\ loaded' = FALSE
    /\ timers' = clearTimeout(timers, syncDebounceTimer)
    /\ UNCHANGED <<settings, keyReadable, gitManager, lastSyncTime, syncDebounceTimer,
                   nextTick, now, proc, repo, faults, edits, remotes, burst, lastTick>>

\* settings.ts:55-58: the remote URL is edited in the settings tab.
ChangeUrl(u) ==
    /\ loaded /\ edits < MaxEdits /\ u # settings.githubRepoUrl
    /\ settings' = [settings EXCEPT !.githubRepoUrl = u]
    /\ edits' = edits + 1
    /\ UNCHANGED <<keyReadable, gitManager, lastSyncTime, syncDebounceTimer, timers,
                   nextTick, loaded, now, proc, repo, faults, remotes, burst, lastTick>>

\* ---- the commit message of a changed-file list
\* The paths a status query can list, in either order.
FileLists ==
    LET FileName(i) == "f" \o ToString(i) \o ".md"
    IN  {[i \in 1..n |-> FileName(i)] : n \in 0..MaxFiles}
        \cup {[i \in 1..n |-> FileName(n + 1 - i)] : n \in 0..MaxFiles}

\* The templates the setting can hold: the default, one without the file
\* placeholder, and two that name it more than once.
Templates ==
    {DefaultTemplate, <<"sync ", "{date}">>, <<"{files}", "{date}", "{files}">>,
     <<"{files}", "{files}", "{files}">>}

\* main.ts:335 and main.ts:85: getCommitMessage(files) for a file list, or for
\* none (has = FALSE) when the status query before it failed.
GetCommitMessage(p, has, files) ==
    /\ proc[p].pc = "idle"
    /\ proc' = [proc EXCEPT ![p] =
                    withCommitMessage(Bundle([IdleProc EXCEPT !.kind = "message",
                                                              !.pc = "M_message",
                                                              !.hasFiles = has,
                                                              !.files = files], repo)).p]
    /\ UNCHANGED <<settings, keyReadable, gitManager, lastSyncTime, syncDebounceTimer,
                   timers, nextTick, loaded, now, repo, faults, edits, remotes, burst,
                   lastTick>>

\* gitManager.ts:344-360: commitAndPush(message, files) builds the message it
\* commits with; status is the non-empty list its own status query returned.
CommitMessage(p, status) ==
    /\ proc[p].pc = "M_message"
    /\ LET changedFiles == IF proc[p].hasFiles THEN proc[p].files ELSE status
       IN  proc' = [proc EXCEPT ![p].pc = "done",
                                ![p].ops = {"commit"},
                                ![p].hasFiles = TRUE,
                                ![p].files = changedFiles,
                                ![p].committed = finalMessage(proc[p].message, changedFiles)]
    /\ UNCHANGED <<settings, keyReadable, gitManager, lastSyncTime, syncDebounceTimer,
                   timers, nextTick, loaded, now, repo, faults, edits, remotes, burst,
                   lastTick>>

\* ------------------------------------------------------------ environment
\* Time passes.
Advance(d) ==
    /\ now + d <= StartTime + MaxTime
    /\ d = 1000 => now < StartTime + ShortHorizon
    /\ now' = now + d
    /\ UNCHANGED <<settings, keyReadable, gitManager, lastSyncTime, syncDebounceTimer,
                   timers, nextTick, loaded, proc, repo, faults, edits, remotes, burst,
                   lastTick>>

\* Another clone pushes to the remote branch: commits that merge cleanly, or
\* commits that conflict with the local branch on the paths cp.
RemoteCommit(kind, cp) ==
    /\ remotes < MaxRemote /\ repo.incoming = "none" /\ ~repo.mergeHead
    /\ repo' = [repo EXCEPT !.incoming = kind, !.remoteBranch = TRUE,
                            !.cpaths = IF kind = "conflict" THEN cp ELSE {}]
    /\ remotes' = remotes + 1
    /\ UNCHANGED <<settings, keyReadable, gitManager, lastSyncTime, syncDebounceTimer,
                   timers, nextTick, loaded, now, proc, faults, edits, burst, lastTick>>

\* ------------------------------------------------------------------ Init
CleanFiles == [f \in Paths |-> "clean"]

\* A vault that is not a repository yet, and one cloned from the remote.
RepoFresh ==
    [isRepo |-> FALSE, origin |-> NoOrigin, branchExists |-> FALSE, current |-> "other",
     mergeHead |-> FALSE, file |-> CleanFiles, ahead |-> 0, incoming |-> "none",
     cpaths |-> {}, remoteBranch |-> FALSE]

RepoCloned ==
    [isRepo |-> TRUE, origin |-> [exists |-> TRUE, url |-> UrlHttps], branchExists |-> TRUE,
     current |-> "main", mergeHead |-> FALSE, file |-> CleanFiles, ahead |-> 0,
     incoming |-> "none", cpaths |-> {}, remoteBranch |-> TRUE]

\* A clone in which a pull has stopped on conflicts in every path.
RepoMerging ==
    [RepoCloned EXCEPT !.mergeHead = TRUE, !.cpaths = Paths,
                       !.file = [f \in Paths |-> "conflicted"]]

\* A clone whose working copy is on another branch than the configured one,
\* and one in which a merge into that branch has stopped on a conflict.
RepoOffBranch == [RepoCloned EXCEPT !.current = "other"]

RepoOffBranchMerging ==
    [RepoOffBranch EXCEPT !.mergeHead = TRUE, !.cpaths = {"a.md"},
                          !.file = [f \in Paths |-> IF f = "a.md" THEN "conflicted"
                                                    ELSE "clean"]]

\* settings.ts:19-32 gives the defaults; the user has set the others.
SettingsOf(urls, tokens, ssh, onOpen, onSave, intervals) ==
    [githubRepoUrl : urls, githubToken : tokens, useSSH : ssh,
     autoSyncOnOpen : onOpen, autoSyncOnSave : onSave, syncInterval : intervals,
     githubBranch : {"main"}, githubUserName : {"Obsidian User"},
     githubUserEmail : {"user@example.com"}, commitMessageTemplate : {DefaultTemplate}]

\* main.ts:5-10: the plugin's fields after construction and onload.
InitWith(S, K, R, F) ==
    /\ settings \in S
    /\ keyReadable \in K
    /\ repo \in R
    /\ faults = F
    /\ gitManager = NullManager
    /\ lastSyncTime = 0
    /\ syncDebounceTimer = NoTimer
    /\ timers = {}
    /\ nextTick = StartTime + TickMs
    /\ loaded = TRUE
    /\ now = StartTime
    /\ proc = [p \in Procs |-> IdleProc]
    /\ edits = 0
    /\ remotes = 0
    /\ burst = [open |-> FALSE, lastTime |-> 0, lastFile |-> "", n |-> 0, urlSet |-> FALSE,
                cycles |-> 0, cycleFile |-> "", cycleAt |-> 0]
    /\ lastTick = [n |-> 0, elapsed |-> 0, interval |-> 0, urlSet |-> FALSE,
                   started |-> FALSE]

\* The steps of a sync cycle whose file list is known.
SyncStep(p) ==
    \/ InitializeStep(p)
    \/ SetupAuthenticationStep(p)
    \/ PullStep(p)
    \/ CommitAndPushStep(p)
    \/ PerformSyncStep(p)
    \/ Finish(p)

Step(p) ==
    \/ SyncStep(p)
    \/ FullSyncStep(p)
    \/ CommandStep(p)
    \/ ResolveConflictsStep(p)

\* The core specification: one handler at a time, on a configured vault.
Init ==
    /\ InitWith(SettingsOf({UrlHttps}, {"tok"}, {FALSE}, {TRUE}, {FALSE}, {0}),
                {TRUE}, {RepoCloned, RepoFresh}, MaxFaults)

Next ==
    \/ Step(1)
    \/ ManualSync(1)
    \/ VaultCreate(1)
    \/ \E k \in {"pull", "push", "abort"} : Command(1, k, "ours")
    \/ \E s \in {"ours", "theirs"} : Command(1, "resolve", s)
    \/ \E f \in Paths : VaultModify(f)
    \/ \E k \in {"clean", "conflict"}, cp \in SUBSET Paths \ {{}} : RemoteCommit(k, cp)

Spec == Init /\ [][Next]_vars

\* Sync cycles alone, with every adapter call returning or throwing in the end.
NextFair ==
    \/ SyncStep(1)
    \/ FullSyncStep(1)
    \/ ManualSync(1)
    \/ \E f \in Paths : VaultModify(f)
    \/ \E k \in {"clean", "conflict"} : RemoteCommit(k, Paths)

SpecFair == Init /\ [][NextFair]_vars /\ WF_vars(SyncStep(1) \/ FullSyncStep(1))

\* Authentication: token and key modes, with and without a usable key.
InitAuth ==
    /\ InitWith(SettingsOf({UrlHttps, UrlSsh, UrlGitlab}, {"", "tok"}, BOOLEAN,
                           {TRUE}, {FALSE}, {0}),
                BOOLEAN, {RepoCloned, RepoFresh}, MaxFaults)

NextAuth ==
    \/ SyncStep(1)
    \/ FullSyncStep(1)
    \/ CommandStep(1)
    \/ ManualSync(1)
    \/ \E k \in {"pull", "push"} : Command(1, k, "ours")
    \/ \E f \in Paths : VaultModify(f)

SpecAuth == InitAuth /\ [][NextAuth]_vars

\* Configuration: the remote URL of the settings, and its edits.
InitConfig ==
    /\ InitWith(SettingsOf(Urls, {"tok"}, {FALSE}, {TRUE}, {FALSE}, {0}),
                {TRUE}, {RepoCloned, RepoFresh}, 0)

NextConfig ==
    \/ SyncStep(1)
    \/ CommandStep(1)
    \/ ManualSync(1)
    \/ VaultCreate(1)
    \/ \E k \in {"pull", "push"} : Command(1, k, "ours")
    \/ \E f \in Paths : VaultModify(f)
    \/ \E u \in Urls \cup {UrlOther} : ChangeUrl(u)

SpecConfig == InitConfig /\ [][NextConfig]_vars

\* Triggers and time: on-save debouncing, the periodic timer, teardown.
InitTime ==
    /\ InitWith(SettingsOf({UrlHttps, UrlEmpty}, {"tok"}, {FALSE}, {TRUE}, {TRUE}, Intervals),
                {TRUE}, {RepoCloned}, 0)

NextTime ==
    \/ SyncStep(1)
    \/ ManualSync(1)
    \/ DebounceFire(1)
    \/ IntervalTick(1)
    \/ \E f \in Paths : VaultModify(f)
    \/ \E d \in TimeSteps : Advance(d)
    \/ Unload

SpecTime == InitTime /\ [][NextTime]_vars

\* Conflict resolution: the resolve command, run once or twice at a time, on
\* a vault opened with or without a merge in progress.
InitResolve ==
    /\ InitWith(SettingsOf({UrlHttps}, {"tok"}, {FALSE}, {TRUE}, {FALSE}, {0}),
                {TRUE}, {RepoCloned, RepoMerging}, 0)

NextResolve ==
    \/ \E p \in Procs : InitializeStep(p)
    \/ \E p \in Procs : SetupAuthenticationStep(p)
    \/ \E p \in Procs : CommandStep(p)
    \/ \E p \in Procs : ResolveConflictsStep(p)
    \/ \E p \in Procs : Finish(p)
    \/ \E p \in Procs, s \in {"ours", "theirs"} : Command(p, "resolve", s)

SpecResolve == InitResolve /\ [][NextResolve]_vars

\* Validation: the validate and status commands, for each authentication mode
\* and with and without a committer identity.
InitValidate ==
    /\ InitWith({[s EXCEPT !.githubUserName = n, !.githubUserEmail = e] :
                    s \in SettingsOf({UrlHttps}, {"", "tok"}, BOOLEAN, {TRUE}, {FALSE}, {0}),
                    n \in {"", "Obsidian User"}, e \in {"", "user@example.com"}},
                BOOLEAN, {RepoCloned}, 0)

NextValidate ==
    \/ InitializeStep(1)
    \/ SetupAuthenticationStep(1)
    \/ ValidateConfigurationStep(1)
    \/ CommandStep(1)
    \/ Finish(1)
    \/ \E k \in {"validate", "status"} : Command(1, k, "ours")

SpecValidate == InitValidate /\ [][NextValidate]_vars

\* Concurrency: triggers that arrive while another handler is suspended.
InitConc ==
    /\ InitWith(SettingsOf({UrlHttps}, {"tok"}, {FALSE}, {TRUE}, {FALSE}, {0}),
                {TRUE}, {RepoCloned}, 0)

NextConc ==
    \/ \E p \in Procs : SyncStep(p)
    \/ \E p \in Procs : ManualSync(p)
    \/ \E p \in Procs : VaultCreate(p)

SpecConc == InitConc /\ [][NextConc]_vars

\* Pulls that start off the configured branch, with and without a merge in
\* progress.
InitMerge ==
    /\ InitWith(SettingsOf({UrlHttps}, {"tok"}, {FALSE}, {TRUE}, {FALSE}, {0}),
                {TRUE}, {RepoOffBranch, RepoOffBranchMerging}, MaxFaults)

NextMerge ==
    \/ SyncStep(1)
    \/ FullSyncStep(1)
    \/ CommandStep(1)
    \/ ManualSync(1)
    \/ Command(1, "pull", "ours")
    \/ \E f \in Paths : VaultModify(f)

SpecMerge == InitMerge /\ [][NextMerge]_vars

\* Every kind of request on a running clock: manual sync cycles and the
\* commands, on a clone and on a clone stopped in a merge.
NextStamp ==
    \/ Step(1)
    \/ ValidateConfigurationStep(1)
    \/ ManualSync(1)
    \/ \E k \in {"pull", "push", "status", "validate", "resolve", "abort"} :
           Command(1, k, "ours")
    \/ \E d \in TimeSteps : Advance(d)

SpecStamp ==
    /\ InitWith(SettingsOf({UrlHttps}, {"tok"}, {FALSE}, {TRUE}, {FALSE}, {0}),
                {TRUE}, {RepoCloned, RepoMerging}, MaxFaults)
    /\ [][NextStamp]_vars

\* The commit message as a function of the template and the file lists.
InitMessage ==
    /\ InitWith({[s EXCEPT !.commitMessageTemplate = t] :
                    s \in SettingsOf({UrlHttps}, {"tok"}, {FALSE}, {TRUE}, {FALSE}, {0}),
                    t \in Templates},
                {TRUE}, {RepoCloned}, 0)

NextMessage ==
    \/ \E files \in FileLists : GetCommitMessage(1, TRUE, files)
    \/ GetCommitMessage(1, FALSE, <<>>)
    \/ \E status \in FileLists \ {<<>>} : CommitMessage(1, status)
    \/ Finish(1)

SpecMessage == InitMessage /\ [][NextMessage]_vars

\* ----------------------------------------------------------------- claims
SyncKinds == {"manual", "create", "save", "interval"}
CommitOps == {"addAll", "commit", "push"}
ResolveCalls == {"R_status", "R_checkout", "R_add", "R_commit"}

\* C1: at most one sync cycle (a performSync execution, from its start until
\* it returns) is active at any time.
C1_SingleCycle ==
    Cardinality({p \in Procs : InFrame(p, "performSync")}) <= 1

\* C2: a full sync cycle whose status after a successful pull lists a
\* conflicted path invokes neither add, commit nor push, and does not report
\* a completed sync.
C2_ConflictStopsCycle ==
    \A p \in Procs :
        (proc[p].kind \in SyncKinds /\ "pullConflicts" \in proc[p].seen)
            => /\ proc[p].ops \cap CommitOps = {}
               /\ "syncComplete" \notin proc[p].notices

\* A burst's one deferred execution is either still scheduled, for the window
\* after the last trigger and with its file, or has started, no earlier than
\* that and with that file; it passes that file to performSync.
BurstHasOneCycle ==
    /\ \/ /\ timers = {[deadline |-> burst.lastTime + 2000, file |-> burst.lastFile]}
          /\ burst.cycles = 0
       \/ /\ timers = {}
          /\ burst.cycles = 1
          /\ burst.cycleFile = burst.lastFile
          /\ burst.cycleAt >= burst.lastTime + 2000
    /\ \A p \in Procs :
           (proc[p].kind = "save" /\ InFrame(p, "performSync"))
               => proc[p].hasFiles /\ proc[p].files = <<proc[p].file>>

\* C3 as stated: with auto-sync-on-save enabled, a burst of on-save triggers,
\* each less than 2 s after the previous one, starts exactly one sync cycle,
\* no earlier than 2 s after the last trigger and with the last trigger's file.
C3_DebounceAsStated == (loaded /\ burst.open) => BurstHasOneCycle

\* C3, amended: the same, for a burst at each of whose triggers the remote URL
\* is non-empty, and while the plugin is loaded.
C3_Debounce == (loaded /\ burst.open /\ burst.urlSet) => BurstHasOneCycle

C3_Witness ==
    /\ loaded /\ burst.open /\ burst.urlSet
    /\ burst.n >= 2 /\ burst.cycles = 1
    /\ \E p \in Procs : proc[p].kind = "save" /\ InFrame(p, "fullSync")

\* C4: a full sync cycle whose pull succeeds without conflicts and whose
\* status shows no changed file ends as a success, having invoked neither
\* add, commit nor push.
C4_NothingToSync ==
    \A p \in Procs :
        (proc[p].kind \in SyncKinds /\ {"pullClean", "nothingToCommit"} \subseteq proc[p].seen)
            => /\ proc[p].pc = "done" /\ proc[p].result = "ok"
               /\ "syncComplete" \in proc[p].notices
               /\ proc[p].ops \cap CommitOps = {}

C4_Witness ==
    \E p \in Procs :
        /\ proc[p].kind \in SyncKinds /\ proc[p].pc = "done"
        /\ {"pullClean", "nothingToCommit"} \subseteq proc[p].seen

\* C5: an interval callback starts a sync cycle only if the interval is
\* positive, the remote URL is non-empty and now - lastSyncTime >= interval *
\* 60000; one that finds less than the interval elapsed changes no state.
C5_IntervalTick ==
    [][lastTick'.n # lastTick.n =>
          /\ (\E p \in Procs : proc'[p].kind = "interval" /\ proc[p].kind # "interval")
                => /\ settings.syncInterval > 0
                   /\ settings.githubRepoUrl # <<>>
                   /\ now - lastSyncTime >= settings.syncInterval * 60000
          /\ now - lastSyncTime < settings.syncInterval * 60000
                => UNCHANGED <<proc, gitManager, repo, lastSyncTime, settings,
                               syncDebounceTimer, timers, loaded>>]_vars

C5_Witness ==
    /\ lastTick.n >= 1 /\ ~lastTick.started
    /\ lastTick.interval > 0 /\ lastTick.urlSet
    /\ lastTick.elapsed < lastTick.interval * 60000

\* C6: every sync cycle ends, in success or in failure, and returns control,
\* whenever each adapter call returns or throws; nothing of it stays behind.
C6_CycleEnds ==
    \A p \in Procs :
        InFrame(p, "performSync")
            ~> (/\ proc[p].pc = "done" /\ proc[p].result \in {"ok", "fail"}
                /\ proc[p].stack = <<>>)

C6_Witness ==
    \E p \in Procs :
        /\ proc[p].kind = "manual" /\ proc[p].pc = "done"
        /\ proc[p].failedAt \cap {"P_pull", "C_push"} # {}
        /\ proc[p].result = "fail"

\* C7: a path leaves the conflict set only in a step of a resolve-conflicts
\* or abort-merge request; no sync, pull or push request stages or commits it.
C7_ConflictsLeaveOnlyOnRequest ==
    [][\A f \in Paths :
          (repo.file[f] = "conflicted" /\ repo'.file[f] # "conflicted")
              => \E p \in Procs : /\ proc[p].kind \in {"resolve", "abort"}
                                   /\ proc'[p] # proc[p]]_vars

\* C8: resolveConflicts on a non-empty conflict set, when no adapter call
\* fails, checks out the chosen side of every conflicted path (the local side
\* for 'ours', the remote side for 'theirs') and stages it, makes exactly one
\* merge commit, leaves the conflict set empty and returns success.
C8_ResolveConflicts ==
    \A p \in Procs :
        (/\ proc[p].kind = "resolve" /\ proc[p].pc = "done"
         /\ proc[p].conflictSet # {}
         /\ proc[p].failedAt \cap ResolveCalls = {})
            => /\ proc[p].result = "ok"
               /\ proc[p].picked =
                      {<<f, IF proc[p].strategy = "ours" THEN "local" ELSE "remote">> :
                          f \in proc[p].conflictSet}
               /\ proc[p].commits = 1
               /\ statusConflicted(repo) = {}
               /\ ~repo.mergeHead

C8_Witness ==
    \E p \in Procs :
        /\ proc[p].kind = "resolve" /\ proc[p].pc = "done"
        /\ proc[p].conflictSet = Paths /\ proc[p].strategy = "theirs"
        /\ proc[p].failedAt = {} /\ proc[p].result = "ok"

RepositoryOps ==
    {"revparse", "init", "addConfig", "addRemote", "removeRemote", "checkout",
     "checkoutLocalBranch", "fetch", "pull", "addAll", "add", "commit", "push"}

\* C9: a request made while the remote URL of the settings is empty or ends
\* with '/' invokes none of rev-parse, init, config, remote add/remove,
\* checkout, fetch, pull, add, commit and push, and ends as a failure that
\* reports the configuration error.
C9_ConfigErrorFirst ==
    \A p \in Procs :
        (proc[p].pc # "idle" /\ (proc[p].cfgUrl = <<>> \/ endsWith(proc[p].cfgUrl, "/")))
            => /\ proc[p].ops \cap RepositoryOps = {}
               /\ proc[p].pc = "done"
                    => /\ proc[p].result = "fail"
                       /\ proc[p].notices \cap {"urlNotConfigured", "urlIncomplete"} # {}

\* C10: fetch, pull and push are invoked only after setupAuthentication has
\* returned success on the handle.
C10_AuthBeforeTransfer ==
    \A p \in Procs :
        proc[p].ops \cap {"fetch", "pull", "push"} # {} => gitManager.authDone

\* C11: a sync request during which initialize fails ends as failed without
\* fetch, pull, commit or push, and leaves the plugin's handle unset.
C11_InitFailureLeavesNoHandle ==
    \A p \in Procs :
        (/\ proc[p].kind \in SyncKinds /\ proc[p].pc = "done"
         /\ proc[p].notices \cap {"authError", "initError"} # {})
            => /\ proc[p].result = "fail"
               /\ proc[p].ops \cap {"fetch", "pull", "commit", "push"} = {}
               /\ ~gitManager.exists

\* C12: a run of initialize starts only when no other run of it is in
\* progress on the handle and none has succeeded on it.
C12_InitializeOnce ==
    [][\A p \in Procs :
          (/\ \E i \in 1..Len(proc'[p].stack) : proc'[p].stack[i] = "initialize"
           /\ ~InFrame(p, "initialize"))
              => /\ ~gitManager.isInitialized
                 /\ \A q \in Procs \ {p} : ~InFrame(q, "initialize")]_vars

\* C13: a request that arrives while a sync cycle is active returns at once,
\* having made no adapter call.
C13_BusyRequestDropped ==
    [][\A p \in Procs :
          (/\ proc[p].pc = "idle" /\ proc'[p].pc # "idle"
           /\ \E q \in Procs \ {p} : InFrame(q, "performSync"))
              => proc'[p].pc = "done" /\ proc'[p].ops = {}]_vars

\* C14: no sync or pull request awaits fetch or pull while MERGE_HEAD is
\* present.
C14_MergeBlocksPull ==
    \A p \in Procs :
        (proc[p].kind \in SyncKinds \cup {"pull"} /\ proc[p].pc \in {"P_fetch", "P_pull"})
            => ~repo.mergeHead

\* C15: every sync, pull, push, resolve-conflicts or abort-merge request that
\* ends in failure has shown a message to the user.
C15_FailuresAreShown ==
    \A p \in Procs :
        (/\ proc[p].kind \in SyncKinds \cup {"pull", "push", "resolve", "abort"}
         /\ proc[p].pc = "done" /\ proc[p].result = "fail")
            => proc[p].notices # {}

\* C16: a sync cycle started when the settings hold a complete remote URL
\* runs on a handle configured with that URL (a cycle never runs against a
\* configuration older than the one saved when it started).
C16_CycleUsesSavedConfig ==
    \A p \in Procs :
        (/\ proc[p].kind \in SyncKinds /\ InFrame(p, "fullSync")
         /\ urlCheck(proc[p].cfgUrl) = "ok")
            => gitManager.config.remoteUrl = proc[p].cfgUrl

\* C17: once the plugin is unloaded, no sync cycle of an on-save or a
\* periodic trigger is started, and no debounce timer is pending.
C17_NoCycleAfterUnload ==
    [][~loaded =>
          /\ timers = {}
          /\ \A p \in Procs :
                (/\ proc'[p].kind \in {"save", "interval"}
                 /\ \E i \in 1..Len(proc'[p].stack) : proc'[p].stack[i] = "performSync")
                    => InFrame(p, "performSync")]_vars

\* C18: a resolveConflicts that fails in a checkout, an add or the commit
\* after it has staged at least one path does not end with the outcome of an
\* ordinary failure (result false, the message of a failed resolution).
C18_PartialResolutionIsDistinct ==
    \A p \in Procs :
        (/\ proc[p].kind = "resolve" /\ proc[p].pc = "done"
         /\ proc[p].failedAt \cap {"R_checkout", "R_add", "R_commit"} # {}
         /\ Len(proc[p].todo) < Cardinality(proc[p].conflictSet))
            => ~(proc[p].result = "fail" /\ "resolveFailed" \in proc[p].notices)

\* C19: when resolveConflicts reads the conflict set of a repository that has
\* no conflicted path, it returns success at once, for either strategy: it
\* invokes no checkout, add or commit and leaves the repository unchanged.
C19_EmptyConflictSetIsNoOp ==
    [][\A p \in Procs :
          (/\ proc[p].pc = "R_status" /\ statusConflicted(repo) = {}
           /\ proc'[p] # proc[p])
              => /\ proc'[p].pc = "done" /\ proc'[p].result = "ok"
                 /\ proc'[p].ops \cap {"checkoutSide", "add", "commit"} = {}
                 /\ repo' = repo]_vars

C19_Witness ==
    \E p \in Procs :
        /\ proc[p].kind = "resolve" /\ proc[p].pc = "done"
        /\ proc[p].strategy = "theirs" /\ proc[p].result = "ok"
        /\ "resolved" \in proc[p].notices /\ proc[p].conflictSet = {}

\* C20: validateConfiguration on a handle in SSH mode whose key file cannot
\* be read and that has no token returns valid = false and an error about the
\* key; for every handle, valid is true exactly when it returns no error.
C20_ValidationReportsKey ==
    \A p \in Procs :
        (proc[p].kind = "validate" /\ proc[p].pc = "done"
         /\ proc[p].notices \cap {"configValid", "configErrors"} # {})
            => /\ (gitManager.config.useSSH /\ ~keyReadable /\ gitManager.config.token = "")
                    => /\ ~proc[p].valid
                       /\ \E i \in 1..Len(proc[p].errors) : proc[p].errors[i] = "sshKey"
               /\ proc[p].valid <=> proc[p].errors = <<>>

C20_Witness ==
    \E p \in Procs :
        /\ proc[p].kind = "validate" /\ proc[p].pc = "done"
        /\ "configErrors" \in proc[p].notices
        /\ gitManager.config.useSSH /\ ~keyReadable /\ gitManager.config.token = ""
        /\ proc[p].errors = <<"sshKey">>

\* ---- the commit message (C21, C22)
Placeholders(t) == Cardinality({i \in 1..Len(t) : t[i] = "{files}"})

\* The paths a message lists, in the order of their lines.
RECURSIVE listedPaths(_)
listedPaths(msg) ==
    IF Len(msg) < 2 THEN <<>>
    ELSE IF msg[1] = "  - " THEN <<msg[2]>> \o listedPaths(Tail(Tail(msg)))
    ELSE listedPaths(Tail(msg))

\* Every listed path is a line of its own.
OnePerLine(msg) ==
    \A i \in 1..Len(msg) :
        msg[i] = "  - " =>
            /\ i > 1 /\ msg[i - 1] = "\n"
            /\ i < Len(msg)
            /\ (i + 2 <= Len(msg) => msg[i + 2] = "\n")

\* The counts the suffix lines of a message state.
SuffixCounts(msg) ==
    {msg[i + 1] : i \in {j \in 1..(Len(msg) - 1) : msg[j] = "  ... e mais "}}

\* C21: for a changed-file list of n paths, the file block of the commit
\* message lists the first min(n, 10) paths in order, one per line as
\* "  - <path>", followed by a suffix line that states n - 10 more files
\* exactly when n > 10.
C21_FileBlock ==
    \A p \in Procs :
        (/\ proc[p].kind = "message" /\ proc[p].pc = "M_message"
         /\ proc[p].hasFiles /\ proc[p].files # <<>>
         /\ Placeholders(settings.commitMessageTemplate) = 1)
        => LET n == Len(proc[p].files)
               msg == proc[p].message
           IN  /\ listedPaths(msg) = SubSeq(proc[p].files, 1, IF n < 10 THEN n ELSE 10)
               /\ OnePerLine(msg)
               /\ SuffixCounts(msg) = IF n > 10 THEN {ToString(n - 10)} ELSE {}
               /\ n > 10 => /\ msg[Len(msg) - 3] = "\n"
                            /\ msg[Len(msg) - 2] = "  ... e mais "
                            /\ msg[Len(msg)] = " arquivo(s)"

\* Twelve files: ten listed paths and a suffix for two more.
C21_Witness ==
    \E p \in Procs :
        /\ proc[p].kind = "message" /\ proc[p].pc = "M_message"
        /\ proc[p].hasFiles /\ Len(proc[p].files) = 12
        /\ settings.commitMessageTemplate = DefaultTemplate
        /\ Len(listedPaths(proc[p].message)) = 10
        /\ SuffixCounts(proc[p].message) = {"2"}

hasLine(msg, f) == \E i \in 1..(Len(msg) - 1) : msg[i] = "  - " /\ msg[i + 1] = f

\* C22: for a commit message template that contains the {files} placeholder
\* and a non-empty changed-file list, the message passed to commit contains a
\* "  - <path>" line for each listed file (the first ten) and no literal
\* {files} remains in it.
C22_FilesPlaceholderFilled ==
    \A p \in Procs :
        (/\ proc[p].kind \in SyncKinds \cup {"push", "message"}
         /\ "commit" \in proc[p].ops
         /\ includes(settings.commitMessageTemplate, "{files}")
         /\ proc[p].files # <<>>)
        => /\ \A i \in 1..Len(proc[p].files) :
                  i <= 10 => hasLine(proc[p].committed, proc[p].files[i])
           /\ ~includes(proc[p].committed, "{files}")

\* ---- the order of a cycle (C23, C24)
PullFailures == {"pullInitError", "mergeInProgress", "remoteBranchMissing", "pullError"}
PullSuccess == {"pullClean", "pullConflicts"}

\* C23: in a full sync cycle add, commit and push are invoked only after the
\* pull of the same cycle has returned success; when the pull fails (failed
\* initialization, merge in progress, missing remote ref, or a pull error)
\* the cycle ends as failed with no add, commit or push.
C23_CommitOnlyAfterPull ==
    \A p \in Procs :
        proc[p].kind \in SyncKinds =>
            /\ proc[p].ops \cap CommitOps # {} => proc[p].seen \cap PullSuccess # {}
            /\ proc[p].notices \cap PullFailures # {} =>
                   /\ proc[p].pc = "done" /\ proc[p].result = "fail"
                   /\ proc[p].ops \cap CommitOps = {}

\* A cycle whose pull failed after it had fetched, with files to commit.
C23_Witness ==
    \E p \in Procs :
        /\ proc[p].kind \in SyncKinds /\ proc[p].pc = "done"
        /\ "pullError" \in proc[p].notices /\ "pull" \in proc[p].ops
        /\ proc[p].result = "fail"
        /\ statusFiles(repo) # {}

\* C24: whenever a full sync cycle ends as a success, every local commit of
\* the configured branch has been pushed to origin (also the commit of an
\* earlier cycle whose push failed, when no file has changed since).
C24_SuccessMeansPushed ==
    \A p \in Procs :
        (proc[p].kind \in SyncKinds /\ proc[p].pc = "done" /\ proc[p].result = "ok")
        => repo.ahead = 0

\* ---- the fetch before a pull (C25, C26)
\* C25: when the fetch before a pull fails with an error other than a missing
\* remote ref, the cycle does not fail at that point: pull is invoked next,
\* and the pull and the steps after it decide the outcome.
C25_FetchErrorIsSoft ==
    [][\A p \in Procs :
          (/\ proc[p].pc = "P_fetch"
           /\ <<"P_fetch", "other">> \in proc'[p].thrown \ proc[p].thrown)
          => /\ proc'[p].pc = "P_pull"
             /\ "pull" \in proc'[p].ops
             /\ proc'[p].notices = proc[p].notices]_vars

\* A cycle that ended as a success although its fetch had failed.
C25_Witness ==
    \E p \in Procs :
        /\ proc[p].kind \in SyncKinds /\ proc[p].pc = "done"
        /\ <<"P_fetch", "other">> \in proc[p].thrown
        /\ proc[p].result = "ok"
        /\ "push" \in proc[p].ops

\* C26: when the fetch fails because the remote ref is not found, on the first
\* sync against an empty remote, the cycle treats it as a soft warning and
\* continues to the pull (it does not end as failed at that point).
C26_MissingRefIsSoft ==
    \A p \in Procs :
        (/\ proc[p].kind \in SyncKinds
         /\ ~repo.remoteBranch
         /\ <<"P_fetch", "refnotfound">> \in proc[p].thrown)
        => "pull" \in proc[p].ops

SetupPcs == {"S_getRemotes", "S_remove", "S_add", "S_remove2", "S_add2"}
RemoteOps == {"removeRemote", "addRemote"}
KeyUnusable == gitManager.config.useSSH /\ ~keyReadable
TokenUrl ==
    <<"https:", "/", "/", "x-access-token:", "tok", "@", "github.com", "/",
      "u", "/", "r", ".git">>

C31_OriginReplaced ==
    [][\A p \in Procs :
          (proc[p].pc \in SetupPcs /\ proc'[p] # proc[p] /\ faults' = faults)
          => /\ (proc[p].pc = "S_getRemotes" /\ repo.origin.exists
                    /\ ~(KeyUnusable /\ gitManager.config.token = ""))
                => /\ proc'[p].pc = "S_remove"
                   /\ proc'[p].url = resolvedUrl(gitManager.config, keyReadable)
             /\ (proc[p].pc \in {"S_remove", "S_remove2"} /\ repo.origin.exists)
                => /\ ~repo'.origin.exists
                   /\ proc'[p].pc \in {"S_add", "S_add2"}
             /\ (proc[p].pc \in {"S_add", "S_add2"} /\ ~repo.origin.exists)
                => /\ repo'.origin = [exists |-> TRUE, url |-> proc[p].url]
                   /\ proc[p].url = resolvedUrl(gitManager.config, keyReadable)
                   /\ gitManager'.authDone
                   /\ proc'[p].pc \notin SetupPcs]_vars

\* The origin a clone came with has been replaced by the token URL.
C31_Witness ==
    \E p \in Procs :
        /\ {"removeRemote", "addRemote"} \subseteq proc[p].ops
        /\ proc[p].failedAt = {}
        /\ proc[p].pc \notin SetupPcs
        /\ gitManager.authDone /\ gitManager.config.remoteUrl = UrlHttps
        /\ repo.origin = [exists |-> TRUE, url |-> TokenUrl]

\* C32: the files listed in the commit message of a cycle are the paths the
\* cycle stages and commits: when a debounced on-save cycle invokes commit,
\* every staged path has its line in the message, not only the file of the
\* last save (the model's cycles stay below the 10-path cap).
C32_MessageListsStaged ==
    \A p \in Procs :
        (/\ proc[p].kind = "save" /\ proc[p].pc = "C_commit"
         /\ includes(settings.commitMessageTemplate, "{files}"))
        => \A f \in Paths :
               repo.file[f] = "staged" => hasLine(proc[p].committed, f)

\* ---- frame conditions (C33, C34)
MutatingOps ==
    {"init", "addConfig", "addRemote", "removeRemote", "checkout", "checkoutLocalBranch",
     "addAll", "add", "commit", "push", "pull"}

\* C33: a status request or a validate request invokes no mutating repository
\* operation (init, config, remote add/remove, checkout, add, commit, push,
\* pull), also when it is the first request after load and no repository
\* handle exists yet.
C33_ValidateMutatesNothing ==
    \A p \in Procs :
        proc[p].kind \in {"validate", "status"} => proc[p].ops \cap MutatingOps = {}

=============================================================================
